---- MODULE Spec2Model ----
(***************************************************************************)
(* pybnf.algorithms: the asynchronous driver loop Algorithm.run and the    *)
(* ParticleSwarm optimiser it drives.                                      *)
(*                                                                         *)
(* Floating point values live on an integer grid.  A PSet is a function    *)
(* from the variable list to grid values; Python's None is the empty       *)
(* tuple, np.inf is Inf.  Inertia weights are kept in units of 1/WScale    *)
(* and np.random.random() in units of 1/RandScale; a product that leaves   *)
(* the grid is rounded down to it.                                         *)
(***************************************************************************)
EXTENDS Integers, Sequences, FiniteSets, TLC

\* ---------------------------------------------------------------- bounds
MaxPop == 2
MaxIter == 3
MaxEvals == 3
MaxScore == 1
MaxWeight == 2
MaxNMax == 2
MaxNv == 30

\* ------------------------------------------------------ program constants
Inf == 1000
InitLow == 0
InitHigh == 4
VelLow == -1
VelHigh == 1
WScale == 10
RandScale == 2
cognitive == 2
social == 2
particle_weight == 10
particle_weight_final == 1
adaptive_n_max == 2
default_n_max == 30

None == <<>>
variable_list == {"x"}

VARIABLES
    has_start_run,   \* the algorithm class overrides Algorithm.start_run
    has_got_result,  \* the algorithm class overrides Algorithm.got_result
    num_particles,   \* config['population_size']
    max_evals,       \* population_size * max_iterations
    n_stop,          \* config['adaptive_n_stop']
    absolute_tol,    \* config['adaptive_abs_tol']
    relative_tol,    \* config['adaptive_rel_tol']
    w0,              \* config['particle_weight'], in units of 1/WScale
    wf,              \* config['particle_weight_final'], in units of 1/WScale
    nmax,            \* config['adaptive_n_max']
    nv,              \* number of unproductive pseudoflights
    num_evals,       \* number of results received
    swarm,           \* particle -> [pos, vel]
    pset_map,        \* PSet -> particle number
    bests,           \* particle -> [pset, score]
    global_best,     \* [pset, score]
    last_best,       \* global best score at the previous pseudoflight boundary
    w,               \* the inertia weight last computed, as num / den (1/WScale)
    trajectory,      \* sequence of <<PSet, score>>
    client,          \* "none", "open", "closed"
    pool,            \* futures not yet yielded by as_completed
    f,               \* the future last yielded by next(pool) (its handle)
    submitted,       \* number of client.submit calls so far
    consumed,        \* number of results yielded by next(pool) so far
    res,             \* the Result last yielded by next(pool)
    response,        \* what the last got_result call returned
    pc,              \* position of Algorithm.run
    err              \* the exception that ended Algorithm.run

config == <<has_start_run, has_got_result, num_particles, max_evals, n_stop,
            absolute_tol, relative_tol, w0, wf, nmax>>
pso == <<nv, num_evals, swarm, pset_map, bests, global_best, last_best, w>>
driver == <<trajectory, client, pool, f, submitted, consumed, res, response, pc, err>>
vars == <<config, pso, driver>>

\* ------------------------------------------------------------- helpers
Abs(a) == IF a < 0 THEN -a ELSE a

\* PSet(dict): structural equality and hash, so the mapping itself.
PSet(d) == d

\* np.random.uniform(low, high): the lowest value and the midpoint of
\* [low, high).
Uniform(low, high) == {low, (low + high) \div 2}

\* np.random.random(): the grid points of [0, 1), in units of 1/RandScale.
Random == 0 .. (RandScale - 1)

\* objective.evaluate(simdata, exp_data); the simulation data of the model
\* is the score it evaluates to.
evaluate(simdata) == simdata

\* What a worker hands back for a job: Result(paramset, simdata).
Result(paramset, simdata, particle) ==
    [pset |-> paramset, simdata |-> simdata, particle |-> particle]

NoResult == [pset |-> None, simdata |-> 0, particle |-> -1]

\* Job.run_simulation as the worker runs it: the job's parameters come back
\* with the simulation data.
run_simulation(job, simdata) == Result(job.params, simdata, job.particle)

\* Job(model, params), with the future's handle and (ghost) the particle the
\* position was produced for.
make_job(id, params, particle) ==
    [id |-> id, params |-> params, particle |-> particle]

Particles == 0 .. (num_particles - 1)

\* No inertia weight has been computed yet.
NoWeight == [num |-> 0, den |-> 0]

\* config values the runs are drawn from
PopulationSizes == 1 .. MaxPop
Iterations == 1 .. MaxIter
\* <<adaptive_n_stop, adaptive_abs_tol, adaptive_rel_tol>>: the defaults, the
\* default tolerances with a finite n_stop, an absolute tolerance, a relative
\* tolerance
AdaptiveSettings == {<<Inf, 0, 0>>, <<1, 0, 0>>, <<1, 1, 0>>, <<2, 0, 1>>}
SimData == (0 .. MaxScore) \cup {Inf}

\* ---------------------------------------------------------------- Init
\* Algorithm.__init__ and ParticleSwarm.__init__
Init ==
    /\ has_start_run \in BOOLEAN
    /\ has_got_result \in BOOLEAN
    /\ num_particles \in PopulationSizes
    /\ \E it \in Iterations :
          /\ num_particles * it <= MaxEvals
          /\ max_evals = num_particles * it
    /\ \E a \in AdaptiveSettings :
          /\ n_stop = a[1]
          /\ absolute_tol = a[2]
          /\ relative_tol = a[3]
    /\ w0 = particle_weight
    /\ wf = particle_weight_final
    /\ nmax = adaptive_n_max
    /\ nv = 0
    /\ num_evals = 0
    /\ swarm = <<>>
    /\ pset_map = <<>>
    /\ bests = [i \in Particles |-> [pset |-> None, score |-> Inf]]
    /\ global_best = [pset |-> None, score |-> Inf]
    /\ last_best = Inf
    /\ w = NoWeight
    /\ trajectory = <<>>
    /\ client = "none"
    /\ pool = {}
    /\ f = 0
    /\ submitted = 0
    /\ consumed = 0
    /\ res = NoResult
    /\ response = [kind |-> "none", psets |-> <<>>]
    /\ pc = "start"
    /\ err = "none"

\* ------------------------------------------------- the position->index map
\* self.pset_map[key] = val
MapPut(map, key, val) ==
    [q \in (DOMAIN map) \cup {key} |-> IF q = key THEN val ELSE map[q]]

\* Mutant of MapPop: pop(key, 0), an absent key resolves to particle 0.
MapPop_default(map, key) ==
    IF key \in DOMAIN map
    THEN [found |-> TRUE, p |-> map[key],
          map |-> [q \in (DOMAIN map) \ {key} |-> map[q]]]
    ELSE [found |-> TRUE, p |-> 0, map |-> map]

\* self.pset_map.pop(key): KeyError when the key is absent.
MapPop(map, key) ==
    IF key \in DOMAIN map
    THEN [found |-> TRUE, p |-> map[key],
          map |-> [q \in (DOMAIN map) \ {key} |-> map[q]]]
    ELSE [found |-> FALSE, p |-> -1, map |-> map]

\* The map after the loop of start_run has registered particles 0 .. n-1.
RECURSIVE start_run_map(_, _)
start_run_map(pos, n) ==
    IF n = 0 THEN <<>>
    ELSE MapPut(start_run_map(pos, n - 1), PSet(pos[n - 1]), n - 1)

\* ------------------------------------------------------ ParticleSwarm steps
\* Mutant of IsBoundary: the test is made before the increment.
IsBoundary_before(n) == (n - 1) % num_particles = 0

\* End of a pseudoflight.
IsBoundary(n) == n % num_particles = 0

\* Mutant of Unproductive: the test for the first pseudoflight is missing.
Unproductive_noguard(lb, gb) ==
    Abs(lb - gb) < absolute_tol + relative_tol * lb

\* Mutant of Unproductive: <= in place of <.
Unproductive_le(lb, gb) ==
    /\ lb # Inf
    /\ Abs(lb - gb) <= absolute_tol + relative_tol * lb

\* The pseudoflight that ends now was unproductive.
Unproductive(lb, gb) ==
    /\ lb # Inf
    /\ Abs(lb - gb) < absolute_tol + relative_tol * lb

\* Mutant of Improves: any different score replaces the best.
Improves_any(score, best) == score # best

\* score < best
Improves(score, best) == score < best

\* Mutant of NewBest: the personal best is replaced by every result.
NewBest_always(pset, score, pbest) == [pset |-> pset, score |-> score]

\* The personal best of the particle after a result.
NewBest(pset, score, pbest) ==
    IF Improves(score, pbest.score) THEN [pset |-> pset, score |-> score] ELSE pbest

\* Mutant of NewGlobalBest: every new personal best becomes the global best.
NewGlobalBest_always(pset, score, pbest, gbest) ==
    IF Improves(score, pbest.score) THEN [pset |-> pset, score |-> score] ELSE gbest

\* The global best after a result.
NewGlobalBest(pset, score, pbest, gbest) ==
    IF Improves(score, pbest.score) /\ Improves(score, gbest.score)
    THEN [pset |-> pset, score |-> score] ELSE gbest

\* Mutant of SetBest: the shared [None, np.inf] of __init__ is updated in place.
SetBest_aliased(bs, p, b) == [i \in DOMAIN bs |-> b]

\* self.bests[p] = [paramset, score]
SetBest(bs, p, b) == [bs EXCEPT ![p] = b]

\* w = w0 + (wf - w0) * nv / (nv + nmax), as WeightNum / (WScale * WeightDen)
WeightNum(n) == w0 * (n + nmax) + (wf - w0) * n

\* Mutant of WeightDen: nv / nmax in place of nv / (nv + nmax).
WeightDen_nmax(n) == nmax

WeightDen(n) == n + nmax

\* The inertia weight for nv = n.
Weight(n) == [num |-> WeightNum(n), den |-> WeightDen(n)]

\* The new velocity of one variable.
Velocity(n, v, x, pbest, gbest, u1, u2) ==
    (WeightNum(n) * v) \div (WScale * WeightDen(n))
    + (cognitive * u1 * (pbest - x)) \div RandScale
    + (social * u2 * (gbest - x)) \div RandScale

\* The stopping criteria.
StopCriterion(n, unprod) == n >= max_evals \/ unprod >= n_stop

\* Mutant of IsStop: the loop never sees STOP.
IsStop_never(resp) == FALSE

\* response == 'STOP'
IsStop(resp) == resp.kind = "STOP"

\* ------------------------------------------------------------- actions
\* Algorithm.run up to the first next(pool): Client(), start_run(), the
\* initial jobs are submitted.  Algorithm.start_run raises.
RunStart ==
    /\ pc = "start"
    /\ client' = "open"
    /\ IF ~has_start_run
       THEN /\ pc' = "error"
            /\ err' = "NotImplementedError"
            /\ UNCHANGED <<config, pso, trajectory, pool, f, submitted, consumed,
                           res, response>>
       ELSE /\ \E pos \in [Particles -> [variable_list -> Uniform(InitLow, InitHigh)]],
                  vel \in [Particles -> [variable_list -> Uniform(VelLow, VelHigh)]] :
                  /\ swarm' = [i \in Particles |-> [pos |-> PSet(pos[i]), vel |-> vel[i]]]
                  /\ pset_map' = start_run_map(pos, num_particles)
                  /\ pool' = {make_job(i + 1, PSet(pos[i]), i) : i \in Particles}
            /\ submitted' = num_particles
            /\ pc' = "wait"
            /\ UNCHANGED <<config, nv, num_evals, bests, global_best, last_best, w,
                           trajectory, f, consumed, res, response, err>>

\* f, res = next(pool): any outstanding job completes, with any outcome.
NextCompletion ==
    /\ pc = "wait"
    /\ \E job \in pool, sd \in SimData :
          /\ f' = job.id
          /\ res' = run_simulation(job, sd)
          /\ pool' = pool \ {job}
    /\ consumed' = consumed + 1
    /\ pc' = "traj"
    /\ UNCHANGED <<config, pso, trajectory, client, submitted, response, err>>

\* Mutant of AddToTrajectory: nothing is recorded.
AddToTrajectory_skip ==
    /\ pc = "traj"
    /\ pc' = "got"
    /\ UNCHANGED <<config, pso, trajectory, client, pool, f, submitted, consumed, res,
                   response, err>>

\* self.add_to_trajectory(res)
AddToTrajectory ==
    /\ pc = "traj"
    /\ trajectory' = Append(trajectory, <<res.pset, evaluate(res.simdata)>>)
    /\ pc' = "got"
    /\ UNCHANGED <<config, pso, client, pool, f, submitted, consumed, res, response, err>>

\* got_result raised: Algorithm.run ends with the exception.
Raise(e) ==
    /\ response' = [kind |-> "raise", psets |-> <<>>]
    /\ pc' = "error"
    /\ err' = e
    /\ UNCHANGED <<client, pool, submitted>>

\* got_result returned resp: the rest of the loop body, and what follows the
\* loop on STOP.
Respond(resp, p) ==
    /\ response' = resp
    /\ err' = err
    /\ IF IsStop(resp)
       THEN /\ pc' = "done"
            /\ client' = "closed"
            /\ UNCHANGED <<pool, submitted>>
       ELSE /\ pc' = "wait"
            /\ pool' = pool \cup {make_job(submitted + i, resp.psets[i], p) :
                                    i \in 1 .. Len(resp.psets)}
            /\ submitted' = submitted + Len(resp.psets)
            /\ client' = client

\* Mutant of GotResultAbstract: the base method returns an empty list.
GotResultAbstract_silent ==
    /\ pc = "got"
    /\ ~has_got_result
    /\ Respond([kind |-> "psets", psets |-> <<>>], 0)
    /\ UNCHANGED <<config, pso, trajectory, f, consumed, res>>

\* response = self.got_result(res), Algorithm.got_result
GotResultAbstract ==
    /\ pc = "got"
    /\ ~has_got_result
    /\ Raise("NotImplementedError")
    /\ UNCHANGED <<config, pso, trajectory, f, consumed, res>>

\* response = self.got_result(res), ParticleSwarm.got_result
GotResult ==
    /\ pc = "got"
    /\ has_got_result
    /\ LET n1 == num_evals + 1
           nv1 == IF IsBoundary(n1) /\ Unproductive(last_best, global_best.score)
                  THEN nv + 1 ELSE nv
           lb1 == IF IsBoundary(n1) THEN global_best.score ELSE last_best
           score == evaluate(res.simdata)
           popped == MapPop(pset_map, res.pset)
           p == popped.p
           best1 == NewBest(res.pset, score, bests[p])
           gb1 == NewGlobalBest(res.pset, score, bests[p], global_best)
       IN  /\ num_evals' = n1
           /\ nv' = nv1
           /\ last_best' = lb1
           /\ UNCHANGED <<config, trajectory, f, consumed, res>>
           /\ IF ~popped.found
              THEN /\ Raise("KeyError")
                   /\ UNCHANGED <<swarm, pset_map, bests, global_best, w>>
              ELSE /\ bests' = SetBest(bests, p, best1)
                   /\ global_best' = gb1
                   /\ w' = Weight(nv1)
                   /\ IF best1.pset = None \/ gb1.pset = None
                      THEN /\ Raise("TypeError")
                           /\ pset_map' = popped.map
                           /\ swarm' = swarm
                      ELSE \E u1 \in [variable_list -> Random],
                              u2 \in [variable_list -> Random] :
                             LET new_vel == [v \in variable_list |->
                                    Velocity(nv1, swarm[p].vel[v], swarm[p].pos[v],
                                             best1.pset[v], gb1.pset[v], u1[v], u2[v])]
                                 new_pset == PSet([v \in variable_list |->
                                    swarm[p].pos[v] + new_vel[v]])
                             IN  /\ swarm' = [swarm EXCEPT ![p] =
                                        [pos |-> new_pset, vel |-> new_vel]]
                                 /\ pset_map' = MapPut(popped.map, new_pset, p)
                                 /\ Respond(IF StopCriterion(n1, nv1)
                                            THEN [kind |-> "STOP", psets |-> <<>>]
                                            ELSE [kind |-> "psets", psets |-> <<new_pset>>],
                                            p)

Next == RunStart \/ NextCompletion \/ AddToTrajectory \/ GotResultAbstract \/ GotResult

Spec == Init /\ [][Next]_vars

\* The run is a ParticleSwarm run.
IsSwarm == has_start_run /\ has_got_result

\* A call of ParticleSwarm.got_result is about to be made.
AtGotResult == pc = "got" /\ has_got_result

\* ------------------------------------------------------------------ C1
\* C1: every got_result call returns STOP exactly when, after its increment,
\* total-evals == max_evals or nv == n_stop, and none returns STOP earlier.
C1_StopExactlyWhen ==
    [][AtGotResult =>
         ((response'.kind = "STOP") <=> (num_evals' = max_evals \/ nv' = n_stop))]_vars

\* ------------------------------------------------------------------ C2
\* C2: the PSet of every result that is delivered to got_result is a key of
\* the position->index map, and it resolves to the particle it was produced
\* for.
C2_RoundTrip ==
    AtGotResult =>
        /\ res.pset \in DOMAIN pset_map
        /\ pset_map[res.pset] = res.particle

\* ------------------------------------------------------------------ C3
\* C3: from one got_result call to the next the global-best score never
\* increases, and no particle's personal-best score increases.
C3_BestsNeverRegress ==
    [][/\ global_best'.score <= global_best.score
       /\ \A i \in Particles : bests'[i].score <= bests[i].score]_vars

\* A worse result was processed after a better one, and the run went on.
C3_Witness ==
    /\ err = "none"
    /\ \E i, j \in 1 .. num_evals :
          /\ i < j
          /\ trajectory[i][2] < trajectory[j][2]
          /\ global_best.score <= trajectory[i][2]

\* ------------------------------------------------------------------ C4
\* C4: a result is appended to the trajectory before got_result is called on
\* it: at every got_result call the trajectory holds one entry per result
\* dequeued so far, the last one being the result at hand, and entries are
\* only ever appended.
C4_TrajectoryBeforeGotResult ==
    /\ [](/\ Len(trajectory) = (IF pc = "traj" THEN consumed - 1 ELSE consumed)
          /\ pc = "got" =>
                /\ Len(trajectory) = consumed
                /\ num_evals = consumed - 1
                /\ trajectory[consumed] = <<res.pset, evaluate(res.simdata)>>)
    /\ [][\/ trajectory' = trajectory
          \/ trajectory' = Append(trajectory, <<res.pset, evaluate(res.simdata)>>)]_vars

\* got_result is being called on the third result.
C4_Witness == pc = "got" /\ consumed = 3 /\ Len(trajectory) = 3

\* ------------------------------------------------------------------ C5
\* C5: once got_result has returned STOP nothing happens any more: no job is
\* submitted, none is dequeued, add_to_trajectory and got_result are not
\* called; the stopping call's PSet was not dispatched, so the submissions
\* are the initial batch and one per earlier call.
C5_NothingAfterStop ==
    /\ [](response.kind = "STOP" =>
             /\ pc = "done"
             /\ submitted = num_particles + num_evals - 1)
    /\ [][response.kind # "STOP"]_vars

\* STOP was returned while jobs were in flight.
C5_Witness == response.kind = "STOP" /\ pc = "done" /\ pool # {}

\* ------------------------------------------------------------------ C6
\* C6: whenever the run has terminated, by STOP or by an error, the worker
\* pool opened at its start is closed.
C6_PoolClosedOnTermination ==
    pc \in {"done", "error"} => client = "closed"

\* ------------------------------------------------------------------ C7
\* C7: a ParticleSwarm run never ends otherwise than by STOP: it processes at
\* most max_evals results, can always go on until it is done, and when it is
\* done the last response was STOP.
C7_TerminatesWithStop ==
    IsSwarm =>
        /\ pc # "error"
        /\ num_evals <= max_evals
        /\ pc = "done" => response.kind = "STOP"
        /\ pc # "done" => ENABLED Next

\* ------------------------------------------------------------------ C8
\* C8: a got_result call whose PSet is not a key of the position->index map
\* raises; it returns neither a PSet list nor STOP, submits nothing and
\* moves no particle.
C8_UnknownPSetRaises ==
    [][(AtGotResult /\ res.pset \notin DOMAIN pset_map) =>
          /\ pc' = "error"
          /\ err' = "KeyError"
          /\ response'.kind = "raise"
          /\ UNCHANGED <<pool, submitted, swarm, pset_map, bests, global_best>>]_vars

\* A lookup has failed.
C8_Witness == err = "KeyError" /\ pc = "error" /\ res.pset \notin DOMAIN pset_map

\* ------------------------------------------------------------------ C9
\* C9 as stated: a run that ends with the not-implemented error has submitted
\* no job and appended nothing to the trajectory.
C9_AbortsBeforeAnyJob ==
    err = "NotImplementedError" => (submitted = 0 /\ trajectory = <<>>)

\* C9 as amended: without start_run the run aborts with the not-implemented
\* error before any job is submitted or anything is appended; with start_run
\* but without got_result it aborts with that error at the first got_result
\* call, after the initial batch was submitted and the first result appended.
C9_AbortsAtFirstMissingMethod ==
    /\ ~has_start_run =>
          /\ pc \in {"start", "error"}
          /\ submitted = 0 /\ pool = {} /\ consumed = 0 /\ trajectory = <<>>
          /\ pc = "error" => err = "NotImplementedError"
    /\ (has_start_run /\ ~has_got_result) =>
          /\ pc # "done"
          /\ consumed <= 1 /\ num_evals = 0
          /\ pc = "error" =>
                /\ err = "NotImplementedError"
                /\ submitted = num_particles
                /\ Len(trajectory) = 1
    /\ err = "NotImplementedError" => ~IsSwarm

\* The run aborted in got_result, with jobs submitted and a result recorded.
C9_Witness ==
    /\ err = "NotImplementedError"
    /\ has_start_run
    /\ submitted = num_particles
    /\ Len(trajectory) = 1

\* ----------------------------------------------------------------- C10
\* The call ends a pseudoflight over which the global best improved by
\* exactly absolute_tol, with relative_tol = 0 and a finite previous best.
C10_Case ==
    /\ AtGotResult
    /\ IsBoundary(num_evals + 1)
    /\ relative_tol = 0
    /\ last_best # Inf
    /\ last_best - global_best.score = absolute_tol

\* C10 as stated: such a pseudoflight is unproductive, nv is incremented.
C10_ExactTolUnproductive == [][C10_Case => nv' = nv + 1]_vars

\* C10 as amended: such a pseudoflight is productive, nv is not incremented
\* (only an improvement smaller than the tolerance is unproductive).
C10_ExactTolProductive == [][C10_Case => nv' = nv]_vars

\* One particle, tolerance 1: the second result improved on the first by 1,
\* the third call ended that pseudoflight and left nv at 0.
C10_Witness ==
    /\ num_particles = 1 /\ absolute_tol = 1 /\ relative_tol = 0
    /\ num_evals = 3
    /\ trajectory[1][2] - trajectory[2][2] = absolute_tol
    /\ nv = 0

\* ----------------------------------------------------------------- C11
\* start_run has returned and no result has been taken yet.
AfterStartRun == pc = "wait" /\ consumed = 0

\* C11: start_run returns population_size PSets, pairwise distinct, each
\* defined on the variable list, and each registered in the position->index
\* map under its own particle index.
C11_StartRunDistinct ==
    AfterStartRun =>
        /\ DOMAIN swarm = Particles
        /\ Cardinality(pool) = num_particles
        /\ \A i \in Particles :
              /\ DOMAIN swarm[i].pos = variable_list
              /\ \E job \in pool : job.params = swarm[i].pos /\ job.particle = i
              /\ swarm[i].pos \in DOMAIN pset_map
              /\ pset_map[swarm[i].pos] = i
        /\ \A i, j \in Particles : i # j => swarm[i].pos # swarm[j].pos

\* ----------------------------------------------------------------- C12
\* The least personal-best score.
MinBestScore ==
    CHOOSE m \in {bests[i].score : i \in Particles} :
        \A i \in Particles : m <= bests[i].score

\* C12: the global-best score is the least personal-best score, and the
\* global-best PSet is the personal-best PSet of a particle with that score
\* (+inf and None while no finite score was seen).
C12_GlobalBestIsMinOfBests ==
    /\ global_best.score = MinBestScore
    /\ \E i \in Particles : bests[i] = global_best
    /\ (global_best.pset = None) <=> (global_best.score = Inf)

\* Two particles with different finite personal bests.
C12_Witness ==
    /\ num_particles = 2
    /\ bests[0].score < Inf /\ bests[1].score < Inf
    /\ bests[0].score # bests[1].score
    /\ global_best.score < Inf

\* ----------------------------------------------------------------- C13
\* C13: nv is 0 as long as at most population_size results were received,
\* and no call made while the previous pseudoflight best is +inf changes nv.
C13_FirstBoundaryNeverUnproductive ==
    /\ [](num_evals <= num_particles => nv = 0)
    /\ [][(AtGotResult /\ last_best = Inf) => nv' = nv]_vars

\* The first boundary was passed under a positive tolerance.
C13_Witness ==
    /\ num_evals = num_particles
    /\ absolute_tol + relative_tol > 0
    /\ err = "none"
    /\ pc = "wait"
    /\ nv = 0

\* ----------------------------------------------------------------- C14
\* The inertia weight as a function of its inputs: w0, wf and nmax are drawn
\* from small sets that hold the documented values, nv counts up from 0.
WeightValues == (0 .. MaxWeight) \cup {particle_weight, particle_weight_final}
NMaxValues == (1 .. MaxNMax) \cup {default_n_max}

WeightInit ==
    /\ has_start_run = TRUE
    /\ has_got_result = TRUE
    /\ num_particles = 1
    /\ max_evals = 1
    /\ n_stop = Inf
    /\ absolute_tol = 0
    /\ relative_tol = 0
    /\ w0 \in WeightValues
    /\ wf \in WeightValues
    /\ nmax \in NMaxValues
    /\ nv = 0
    /\ num_evals = 0
    /\ swarm = <<>>
    /\ pset_map = <<>>
    /\ bests = [i \in Particles |-> [pset |-> None, score |-> Inf]]
    /\ global_best = [pset |-> None, score |-> Inf]
    /\ last_best = Inf
    /\ w = Weight(0)
    /\ trajectory = <<>>
    /\ client = "none"
    /\ pool = {}
    /\ f = 0
    /\ submitted = 0
    /\ consumed = 0
    /\ res = NoResult
    /\ response = [kind |-> "none", psets |-> <<>>]
    /\ pc = "start"
    /\ err = "none"

\* One more unproductive pseudoflight, and the weight of the next update.
WeightStep ==
    /\ nv < MaxNv
    /\ nv' = nv + 1
    /\ w' = Weight(nv + 1)
    /\ UNCHANGED <<config, num_evals, swarm, pset_map, bests, global_best,
                   last_best, driver>>

WeightSpec == WeightInit /\ [][WeightStep]_vars

\* C14: for nmax > 0 the inertia weight is w0 at nv = 0, lies between w0 and
\* wf inclusive for every nv, never moves away from wf as nv grows, and is
\* 0.55 for w0 = 1.0, wf = 0.1, nmax = 30, nv = 30.
C14_InertiaWeight ==
    /\ [](/\ w.den > 0
          /\ nv = 0 => w.num = w0 * w.den
          /\ (IF w0 <= wf THEN w0 ELSE wf) * w.den <= w.num
          /\ w.num <= (IF w0 <= wf THEN wf ELSE w0) * w.den
          /\ (w0 = particle_weight /\ wf = particle_weight_final
                /\ nmax = default_n_max /\ nv = default_n_max)
             => 100 * w.num = 55 * WScale * w.den)
    /\ [][Abs(w'.num - wf * w'.den) * w.den <= Abs(w.num - wf * w.den) * w'.den]_vars

\* The documented scenario: w0 = 1.0, wf = 0.1, nmax = 30, nv = 30, w = 0.55.
C14_Witness ==
    /\ w0 = particle_weight /\ wf = particle_weight_final
    /\ nmax = default_n_max /\ nv = default_n_max
    /\ 100 * w.num = 55 * WScale * w.den
    /\ w.num # w0 * w.den /\ w.num # wf * w.den

\* ----------------------------------------------------------------- C15
\* C15: under the driver loop each particle has at most one job in flight at
\* any time, and exactly population_size jobs are outstanding at every wait
\* for a completion.
C15_OneJobPerParticle ==
    /\ \A p \in Particles : Cardinality({j \in pool : j.particle = p}) <= 1
    /\ pc = "wait" => Cardinality(pool) = num_particles

\* ----------------------------------------------------------------- C16
\* C16: every got_result call adds exactly 1 to num_evals; nv never decreases
\* and changes only in a call whose incremented num_evals is a multiple of
\* num_particles, by exactly 1; such a call sets last_best to the global-best
\* score as it stood before the call, every other call leaves it alone.
C16_Bookkeeping ==
    /\ [][AtGotResult =>
            /\ num_evals' = num_evals + 1
            /\ nv' \in {nv, nv + 1}
            /\ nv' # nv => (num_evals + 1) % num_particles = 0
            /\ (num_evals + 1) % num_particles = 0 => last_best' = global_best.score
            /\ (num_evals + 1) % num_particles # 0 => last_best' = last_best]_vars
    /\ [][~AtGotResult => UNCHANGED <<num_evals, nv, last_best>>]_vars

\* A boundary call whose own result improved the global best: last_best holds
\* the score from before the call.
C16_Witness ==
    /\ err = "none"
    /\ num_particles = 2 /\ num_evals = 2
    /\ last_best # Inf
    /\ global_best.score < last_best

\* ----------------------------------------------------------------- C17
\* The jobs still in flight for the position of the result being delivered.
SamePosition == {j \in pool : j.params = res.pset}

\* The particle whose job for that position was submitted last.
LastRegistrant ==
    IF \E j \in SamePosition : j.id > f
    THEN (CHOOSE j \in SamePosition : \A k \in SamePosition : k.id <= j.id).particle
    ELSE res.particle

\* C17: when two particles hold the same position the map has one entry for
\* it: the first completion for the position is attributed to the particle
\* that registered it last, and the position is then no longer a key, so the
\* second completion for it fails the lookup.
C17_SecondCompletionFails ==
    [][(AtGotResult /\ SamePosition # {} /\ res.pset \in DOMAIN pset_map) =>
            /\ pset_map[res.pset] = LastRegistrant
            /\ res.pset \notin DOMAIN pset_map']_vars

\* ----------------------------------------------------------------- C18
\* A driver iteration has completed: got_result returned and its response
\* was handled.
IterationCompleted == pc \in {"wait", "done"} /\ consumed >= 1

\* C18: after every completed driver iteration the global-best score is the
\* minimum score in the trajectory, and the global-best PSet is in the
\* trajectory with that score.
C18_GlobalBestIsTrajectoryMin ==
    (IsSwarm /\ IterationCompleted) =>
        /\ \A i \in 1 .. Len(trajectory) : global_best.score <= trajectory[i][2]
        /\ \E i \in 1 .. Len(trajectory) :
              trajectory[i] = <<global_best.pset, global_best.score>>

\* Two results were recorded and the second scored worse than the first,
\* which is still the global best.
C18_Witness ==
    /\ IsSwarm /\ pc = "wait"
    /\ Len(trajectory) = 2
    /\ trajectory[2][2] > trajectory[1][2]
    /\ global_best.score = trajectory[1][2]

\* ----------------------------------------------------------------- C19
\* adaptive_abs_tol = 0 and adaptive_rel_tol = 0, the defaults.
DefaultTolerances == absolute_tol = 0 /\ relative_tol = 0

\* C19: with the default tolerances nv stays 0 in every reachable state, so
\* with n_stop > 0 STOP is returned only when num_evals has reached max_evals,
\* and the inertia weight of every velocity update is w0.
C19_DefaultTolerancesNeverAdapt ==
    (IsSwarm /\ DefaultTolerances /\ n_stop > 0) =>
        /\ nv = 0
        /\ response.kind = "STOP" => num_evals = max_evals
        /\ w # NoWeight => w.num = w0 * w.den

\* A pseudoflight without any improvement ended under the default tolerances
\* and a finite n_stop, and nv is still 0.
C19_Witness ==
    /\ IsSwarm /\ DefaultTolerances /\ n_stop = 1
    /\ num_particles = 1 /\ num_evals = 3 /\ err = "none"
    /\ last_best # Inf /\ last_best = global_best.score
    /\ trajectory[1][2] = global_best.score
    /\ w # NoWeight /\ nv = 0

\* ----------------------------------------------------------------- C20
\* C20: a got_result call whose PSet is not a key of pset_map leaves
\* positions, velocities, personal bests, global best and the map unchanged
\* but has incremented num_evals and applied the pseudoflight bookkeeping; a
\* successful call for particle p changes the position, velocity and personal
\* best of p only.
C20_FrameConditions ==
    [][AtGotResult =>
         IF res.pset \notin DOMAIN pset_map
         THEN /\ err' = "KeyError"
              /\ UNCHANGED <<swarm, bests, global_best, pset_map>>
              /\ num_evals' = num_evals + 1
              /\ (num_evals + 1) % num_particles = 0 =>
                    /\ last_best' = global_best.score
                    /\ nv' = IF /\ last_best # Inf
                                /\ Abs(last_best - global_best.score) <
                                     absolute_tol + relative_tol * last_best
                             THEN nv + 1 ELSE nv
              /\ (num_evals + 1) % num_particles # 0 =>
                    UNCHANGED <<last_best, nv>>
         ELSE \A q \in Particles \ {pset_map[res.pset]} :
                 swarm'[q] = swarm[q] /\ bests'[q] = bests[q]]_vars

\* A call failed its lookup at a pseudoflight boundary where last_best was
\* already finite and was overwritten.
C20_Witness ==
    /\ err = "KeyError"
    /\ num_particles = 2 /\ num_evals = 2
    /\ last_best # Inf
    /\ swarm[0].pos # swarm[1].pos

====
